---------------------------- MODULE Spec2Model ----------------------------
(***************************************************************************)
(* Model of the Lanchester / D&D battle simulation engine                  *)
(* (src/utils/simulation.ts): calculateEffectiveDPR, calculateCoefficient, *)
(* runContinuousSimulation, runDiscreteSimulation and runSimulation.       *)
(*                                                                         *)
(* One call of runSimulation is a run of the state machine: Call binds the *)
(* arguments (with their defaults) and computes alpha and beta, then the   *)
(* continuous solver and the discrete solver execute one loop iteration    *)
(* per step, and Return assembles the SimulationResult.                    *)
(*                                                                         *)
(* Three specifications share these actions and variables:                 *)
(*  - Spec: one call of runSimulation over the scenarios and arguments;    *)
(*  - RepeatSpec: a call followed by a second one (same arguments, units   *)
(*    exchanged, or the other law), the first result kept for comparison;  *)
(*  - EditorSpec: the unit editor (UnitConfig.handleChange) feeding        *)
(*    calculateEffectiveDPR and calculateCoefficient.                      *)
(* Two more follow the components that App gives the result to:            *)
(*  - ScannerSpec: SentimentScanner, its camera, timer and requests;       *)
(*  - ReportSpec: AnalysisReport, its chat session, messages and requests. *)
(*                                                                         *)
(* NUMBERS.  A TypeScript `number` is an IEEE-754 double.  Two models of   *)
(* it are used, both computed with integers below 2^31:                    *)
(*  - the loop variable t of the continuous solver is carried EXACTLY as   *)
(*    the double it is (an integer count of 2^-57, three limbs), with the  *)
(*    double's round-to-nearest-even on every t += dt.  The comparisons    *)
(*    t <= maxTime and t < maxTime therefore see the same accumulated      *)
(*    rounding drift as the program;                                       *)
(*  - every other real (coefficients, force sizes, damage) is a binary     *)
(*    floating-point number <<m, e>> = m * 2^e with a SigBits-bit          *)
(*    significand (28 bits where a double has 53), rounded to nearest-even *)
(*    after every operation, with the double's underflow threshold.  It    *)
(*    has the double's qualitative behaviour (exact small dyadic values,   *)
(*    exact sign of a difference, absorption of a small addend by a large  *)
(*    one) at a lower precision: values agree with the program's to about  *)
(*    7 significant digits.  The only values that are not finite are the   *)
(*    coefficients of a target with hp = 0 (see NonFinite).                *)
(* Times recorded in steps are integers in hundredths (toFixed(2)).        *)
(***************************************************************************)
EXTENDS Integers, Sequences, FiniteSets, TLC

(***************************************************************************)
(* Floating point with a SigBits-bit significand                           *)
(***************************************************************************)
HalfBits == 14

SigBits == 2 * HalfBits

TopBit == SigBits - 1

\* smallest exponent of a unit in the last place: a double's is 2^-1074
MinUlpExp == 0 - 1074

Zero == <<0, 0>>

Abs(v) == IF v < 0 THEN 0 - v ELSE v

Sgn(v) == IF v > 0 THEN 1 ELSE IF v < 0 THEN 0 - 1 ELSE 0

Max(x, y) == IF x > y THEN x ELSE y

\* v is computed before w: the order of the statements of the source
Eval(v, w) == IF v = v THEN w ELSE w

\* position of the leading bit of v, 1 <= v < 2^31, by bisection
Log2(v) ==
  IF v >= 2 ^ 16
    THEN IF v >= 2 ^ 24
           THEN IF v >= 2 ^ 28
                  THEN IF v >= 2 ^ 30 THEN 30 ELSE IF v >= 2 ^ 29 THEN 29 ELSE 28
                  ELSE IF v >= 2 ^ 26 THEN (IF v >= 2 ^ 27 THEN 27 ELSE 26)
                       ELSE IF v >= 2 ^ 25 THEN 25 ELSE 24
           ELSE IF v >= 2 ^ 20
                  THEN IF v >= 2 ^ 22 THEN (IF v >= 2 ^ 23 THEN 23 ELSE 22)
                       ELSE IF v >= 2 ^ 21 THEN 21 ELSE 20
                  ELSE IF v >= 2 ^ 18 THEN (IF v >= 2 ^ 19 THEN 19 ELSE 18)
                       ELSE IF v >= 2 ^ 17 THEN 17 ELSE 16
    ELSE IF v >= 2 ^ 8
           THEN IF v >= 2 ^ 12
                  THEN IF v >= 2 ^ 14 THEN (IF v >= 2 ^ 15 THEN 15 ELSE 14)
                       ELSE IF v >= 2 ^ 13 THEN 13 ELSE 12
                  ELSE IF v >= 2 ^ 10 THEN (IF v >= 2 ^ 11 THEN 11 ELSE 10)
                       ELSE IF v >= 2 ^ 9 THEN 9 ELSE 8
           ELSE IF v >= 2 ^ 4
                  THEN IF v >= 2 ^ 6 THEN (IF v >= 2 ^ 7 THEN 7 ELSE 6)
                       ELSE IF v >= 2 ^ 5 THEN 5 ELSE 4
                  ELSE IF v >= 4 THEN (IF v >= 8 THEN 3 ELSE 2)
                       ELSE IF v >= 2 THEN 1 ELSE 0

\* a / 2^k rounded to nearest, ties to even, 1 <= k <= 30;
\* sticky: nonzero bits were already dropped below a
RoundShift(a, k, sticky) ==
  LET q == a \div (2 ^ k)
      r == a % (2 ^ k)
      half == 2 ^ (k - 1)
  IN  IF r > half \/ (r = half /\ (sticky \/ q % 2 = 1)) THEN q + 1 ELSE q

\* the number s * q * 2^e with the leading bit of q moved to TopBit, 0 <= q <= 2^SigBits
Pack(s, q, e, l) ==
  IF q = 0 THEN Zero
  ELSE IF l > TopBit THEN <<s * (2 ^ TopBit), e + 1>>
  ELSE <<s * q * (2 ^ (TopBit - l)), e - (TopBit - l)>>

\* k low bits of a are rounded away
RoundAt(s, a, e, sticky, k) ==
  IF k = 0 THEN Pack(s, a, e, Log2(a))
  ELSE IF k > 30 THEN Zero
  ELSE Pack(s, RoundShift(a, k, sticky), e + k, Log2(RoundShift(a, k, sticky)))

\* s * a * 2^e rounded to SigBits bits and to a multiple of 2^MinUlpExp, 0 < a < 2^30
Round30(s, a, e, sticky) ==
  RoundAt(s, a, e, sticky, Max(0, Max(Log2(a) - TopBit, MinUlpExp - e)))

\* the same for 0 < a < 2^31
Round(s, a, e, sticky) ==
  Round30(s, IF a >= 2 ^ 30 THEN a \div 2 ELSE a,
          IF a >= 2 ^ 30 THEN e + 1 ELSE e,
          sticky \/ (a >= 2 ^ 30 /\ a % 2 = 1))

\* v * 2^e for an integer v; with sticky the number lies strictly between v and v + 1
FNorm(v, e, sticky) ==
  IF v = 0 \/ (v = 0 - 1 /\ sticky) THEN Zero
  ELSE Round(Sgn(v), IF v < 0 /\ sticky THEN (0 - v) - 1 ELSE Abs(v), e, sticky)

FromInt(n) == FNorm(n, 0, FALSE)

FNeg(x) == <<0 - x[1], x[2]>>

FSign(x) == Sgn(x[1])

\* x * y: the SigBits-bit significands are multiplied in halves of HalfBits bits
FMul(x, y) ==
  IF x[1] = 0 \/ y[1] = 0 THEN Zero
  ELSE LET B == 2 ^ HalfBits
           ah == Abs(x[1]) \div B
           al == Abs(x[1]) % B
           bh == Abs(y[1]) \div B
           bl == Abs(y[1]) % B
           sm == ah * bl + al * bh + ((al * bl) \div B)
           Q == 2 ^ (HalfBits - 2)
       IN  Round(Sgn(x[1]) * Sgn(y[1]), ah * bh * 4 + (sm \div Q),
                 x[2] + y[2] + 2 * HalfBits - 2,
                 (sm % Q # 0) \/ ((al * bl) % B # 0))

\* x + y for x[2] >= y[2], both nonzero
AddAligned(x, y) ==
  LET d == x[2] - y[2] IN
  IF d > SigBits + 2 THEN x
  ELSE LET g == IF d < 2 THEN d ELSE 2
           sh == 2 ^ (d - g)
           yq == Abs(y[1]) \div sh
           sticky == Abs(y[1]) % sh # 0
       IN  FNorm(IF y[1] > 0 THEN x[1] * (2 ^ g) + yq
                 ELSE x[1] * (2 ^ g) - yq - (IF sticky THEN 1 ELSE 0),
                 x[2] - g, sticky)

FAdd(x, y) ==
  IF y[1] = 0 THEN x
  ELSE IF x[1] = 0 THEN y
  ELSE AddAligned(IF x[2] >= y[2] THEN x ELSE y, IF x[2] >= y[2] THEN y ELSE x)

FSub(x, y) == FAdd(x, FNeg(y))

\* x < y, x <= y (the sign of a difference is exact)
FLt(x, y) == FSign(FSub(x, y)) < 0

FLe(x, y) == FSign(FSub(x, y)) <= 0

FMax(x, y) == IF FLt(x, y) THEN y ELSE x

FMin(x, y) == IF FLt(x, y) THEN x ELSE y

RECURSIVE DivBits(_, _, _, _)
\* long division: n more quotient bits of r / b, three at a time
DivBits(q, r, b, n) ==
  IF n = 0 THEN <<q, r>>
  ELSE DivBits(8 * q + ((8 * r) \div b), (8 * r) % b, b, n - 3)

\* the quotient qr[1] * 2^e with remainder qr[2]
Quotient(s, qr, e) == Round(s, qr[1], e, qr[2] # 0)

\* x / y, y nonzero
FDiv(x, y) ==
  IF x[1] = 0 THEN Zero
  ELSE Quotient(Sgn(x[1]) * Sgn(y[1]),
                DivBits(Abs(x[1]) \div Abs(y[1]), Abs(x[1]) % Abs(y[1]), Abs(y[1]), SigBits + 2),
                x[2] - y[2] - (SigBits + 2))

FromRatio(n, d) == FDiv(FromInt(n), FromInt(d))

One == <<2 ^ TopBit, 0 - TopBit>>

Half == <<2 ^ TopBit, 0 - SigBits>>

RECURSIVE Newton(_, _, _)
RECURSIVE NewtonNext(_, _, _, _)
\* Math.sqrt by Newton's iteration from a power of two
Newton(v, x, n) ==
  IF n = 0 THEN x ELSE NewtonNext(v, x, FMul(Half, FAdd(x, FDiv(v, x))), n)

NewtonNext(v, x, y, n) == IF y = x THEN x ELSE Newton(v, y, n - 1)

FSqrt(v) ==
  IF v[1] = 0 THEN Zero
  ELSE Newton(v, <<2 ^ TopBit, ((v[2] + TopBit) \div 2) - TopBit>>, 6)

\* Math.floor, as an integer
FFloor(x) ==
  IF x[2] >= 0 THEN x[1] * (2 ^ x[2])
  ELSE IF 0 - x[2] > SigBits THEN (IF x[1] >= 0 THEN 0 ELSE 0 - 1)
  ELSE x[1] \div (2 ^ (0 - x[2]))

(***************************************************************************)
(* Math.exp, Math.cosh, Math.sinh                                          *)
(***************************************************************************)
\* ln 2 and 1 / ln 2 rounded to SigBits bits
Ln2 == <<186065279, 0 - 28>>

InvLn2 == <<193635251, 0 - 27>>

RECURSIVE Factorial(_)
Factorial(i) == IF i = 0 THEN 1 ELSE i * Factorial(i - 1)

ExpDegree == 10

InvFact == [i \in 0 .. ExpDegree |-> FromRatio(1, Factorial(i))]

RECURSIVE Horner(_, _, _)
\* acc is the sum of r^j / (i + 1 + j)! for j = 0 .. ExpDegree - i - 1
Horner(r, i, acc) ==
  IF i < 0 THEN acc
  ELSE Eval(acc, Horner(r, i - 1, FAdd(FMul(acc, r), InvFact[i])))

\* p * 2^n
Scale(p, n) == <<p[1], p[2] + n>>

\* e^x = 2^n * e^r with x = n ln 2 + r, |r| <= (ln 2) / 2
ExpReduced(x, n) ==
  Eval(n, Scale(Horner(FSub(x, FMul(FromInt(n), Ln2)), ExpDegree - 1, InvFact[ExpDegree]), n))

Exp(x) == ExpReduced(x, FFloor(FAdd(FMul(x, InvLn2), Half)))

CoshOf(E) == Eval(E, FMul(Half, FAdd(E, FDiv(One, E))))

SinhOf(E) == Eval(E, FMul(Half, FSub(E, FDiv(One, E))))

Cosh(x) == CoshOf(Exp(x))

Sinh(x) == SinhOf(Exp(x))

(***************************************************************************)
(* The loop variable t as the IEEE double it is: an integer number of      *)
(* 2^-57, written <<h, m, l>> = (h * 2^22 + m) * 2^22 + l.                 *)
(***************************************************************************)
Limb == 2 ^ 22

TZero == <<0, 0, 0>>

\* the double nearest 0.05 is 7205759403792794 * 2^-57, the double nearest 0.1 twice that
Double005 == <<409, 2516582, 1677722>>

\* a sampling step of 0.2, the double nearest 0.2 being twice that of 0.1
Double02 == <<1638, 1677721, 2516584>>

Double01 == <<819, 838860, 3355444>>

\* carry propagation of <<h, m, l>> with m, l possibly beyond a limb
TCarry(h, m, l) ==
  LET m1 == m + (l \div Limb)
  IN  <<h + (m1 \div Limb), m1 % Limb, l % Limb>>

\* t + d rounded to a double (53 significant bits, nearest, ties to even);
\* for t + d in [2^e, 2^(e+1)) a unit in the last place is 2^(e-52) = 2^(e+5) * 2^-57
TAdd(t, d) ==
  LET s == TCarry(t[1] + d[1], t[2] + d[2], t[3] + d[3]) IN
  IF s[1] < 2 ^ 8 THEN s
  ELSE LET j == Log2(s[1]) - 8 IN
       IF j = 0 THEN s
       ELSE TCarry(s[1], s[2], RoundShift(s[3], j, FALSE) * (2 ^ j))

TLt(t, u) ==
  \/ t[1] < u[1]
  \/ t[1] = u[1] /\ t[2] < u[2]
  \/ t[1] = u[1] /\ t[2] = u[2] /\ t[3] < u[3]

TLe(t, u) == ~TLt(u, t)

\* a time given in hundredths that is a multiple of 0.25, as a double (exact)
TFromHundredths(c) == <<(c \div 25) * (2 ^ 11), 0, 0>>

\* parseFloat(t.toFixed(2)) in hundredths: the hundredth nearest to t
ToFixed2(t) ==
  LET s == TCarry(t[1] * 100, t[2] * 100, t[3] * 100)
  IN  (s[1] + 2 ^ 12) \div (2 ^ 13)

\* t as a SigBits-bit number, for products with t
TToFloat(t) ==
  IF t[1] = 0
    THEN FNorm(t[2] * (2 ^ 8) + (t[3] \div (2 ^ 14)), 0 - 43, t[3] % (2 ^ 14) # 0)
  ELSE LET lh == Log2(t[1])
           k == IF 29 - lh > 22 THEN 22 ELSE 29 - lh
           sh == 2 ^ (22 - k)
       IN  FNorm(t[1] * (2 ^ k) + (t[2] \div sh), 0 - 13 - k,
                 (t[2] % sh # 0) \/ (t[3] # 0))

(***************************************************************************)
(* Units                                                                   *)
(***************************************************************************)
LawType == {"SQUARE", "LINEAR"}

COMMONER ==
  [name |-> "Commoner", count |-> 20, hp |-> 4, ac |-> 10, attackBonus |-> 2,
   damageDiceAvg |-> FromRatio(5, 2), damageMod |-> 0]

GUARD ==
  [name |-> "Guard", count |-> 5, hp |-> 11, ac |-> 16, attackBonus |-> 3,
   damageDiceAvg |-> FromRatio(9, 2), damageMod |-> 1]

VETERAN ==
  [name |-> "Veteran", count |-> 3, hp |-> 58, ac |-> 17, attackBonus |-> 5,
   damageDiceAvg |-> FromInt(7), damageMod |-> 3]

GOBLIN ==
  [name |-> "Goblin", count |-> 15, hp |-> 7, ac |-> 15, attackBonus |-> 4,
   damageDiceAvg |-> FromRatio(7, 2), damageMod |-> 2]

\* the unit editor: one numeric field of a unit replaced by the typed number
handleChange(unit, field, value) == [unit EXCEPT ![field] = value]

(***************************************************************************)
(* calculateEffectiveDPR, calculateCoefficient                             *)
(***************************************************************************)
\* a damage per round whose hit chance is not clamped
calculateEffectiveDPRUnclamped(attacker, defender) ==
  FAdd(FMul(FromRatio(21 + attacker.attackBonus - defender.ac, 20),
            FAdd(attacker.damageDiceAvg, FromInt(attacker.damageMod))),
       FMul(FromRatio(5, 100), attacker.damageDiceAvg))

calculateEffectiveDPR(attacker, defender) ==
  LET raw == FromRatio(21 + attacker.attackBonus - defender.ac, 20)
      hitChance == FMax(FromRatio(5, 100), FMin(FromRatio(95, 100), raw))
      avgHitDmg == FAdd(attacker.damageDiceAvg, FromInt(attacker.damageMod))
      critDamage == FMul(FromRatio(5, 100), attacker.damageDiceAvg)
  IN  FAdd(FMul(hitChance, avgHitDmg), critDamage)

\* a coefficient with attacker and target exchanged
calculateCoefficientSwapped(attacker, target) ==
  FDiv(calculateEffectiveDPR(target, attacker), FromInt(attacker.hp))

\* x / 0 as IEEE arithmetic gives it: an infinity with the sign of x, NaN for
\* 0 / 0.  A value that is not finite carries the exponent NonFinite, and its
\* first component is 1 (Infinity), -1 (-Infinity) or 0 (NaN).
NonFinite == 1024

DivideByZero(x) == <<FSign(x), NonFinite>>

calculateCoefficient(attacker, target) ==
  IF target.hp = 0
    THEN DivideByZero(calculateEffectiveDPR(attacker, target))
    ELSE FDiv(calculateEffectiveDPR(attacker, target), FromInt(target.hp))

(***************************************************************************)
(* State of one runSimulation call                                         *)
(***************************************************************************)
VARIABLES
  pc,            \* where the call is
  args,          \* the fourth and fifth argument as the caller wrote them
  unitA, unitB, law, dt, maxTime,       \* runSimulation's parameters after defaulting
  alpha, beta,
  steps, duration, winner,              \* runContinuousSimulation
  sqrtAB, factorA, factorB, t, a, b,
  dSteps, countA, countB, dprA, dprB,   \* runDiscreteSimulation
  round, maxRounds,
  result,                               \* the SimulationResult returned
  previous,                             \* the call before this one and what it returned
  scenario,                             \* which unitA, unitB, result, law the components are given
  isActive, sentiment, scannerLoading,  \* SentimentScanner
  scannerError, intervalRef, frames,
  messages, input, reportLoading,       \* AnalysisReport
  reportError, chatRef, replies

\* the state of SentimentScanner
scannerVars == <<isActive, sentiment, scannerLoading, scannerError, intervalRef, frames>>

\* the state of AnalysisReport
reportVars == <<messages, input, reportLoading, reportError, chatRef, replies>>

\* the two components and the props App gives them
componentVars == <<scenario, scannerVars, reportVars>>

simulationVars ==
  <<pc, args, unitA, unitB, law, dt, maxTime, alpha, beta, steps, duration, winner,
    sqrtAB, factorA, factorB, t, a, b, dSteps, countA, countB, dprA, dprB,
    round, maxRounds, result, previous>>

vars == <<simulationVars, componentVars>>

callVars == <<args, unitA, unitB, law, dt, maxTime, alpha, beta>>

squareVars == <<sqrtAB, factorA, factorB>>

discVars == <<dSteps, countA, countB, dprA, dprB, round, maxRounds>>

\* an argument is <<>> when the caller leaves it out (undefined), else <<value>>
Default(arg, d) == IF arg = <<>> THEN d ELSE arg[1]

\* the defaults dt = 0.1, maxTime = 100 and maxRounds = 20, in hundredths
DefaultDt == 10

DefaultMaxTime == 10000

DefaultMaxRounds == 2000

NoResult ==
  [continuousSteps |-> <<>>, discreteSteps |-> <<>>, winner |-> "Draw",
   duration |-> 0, discreteDuration |-> 0, alpha |-> Zero, beta |-> Zero]

\* the application starts with GUARD against COMMONER under the Square law
Init ==
  /\ pc = "idle"
  /\ args = <<<<>>, <<>>>>
  /\ unitA = GUARD
  /\ unitB = COMMONER
  /\ law = "SQUARE"
  /\ dt = 0
  /\ maxTime = 0
  /\ alpha = Zero
  /\ beta = Zero
  /\ steps = <<>>
  /\ duration = 0
  /\ winner = "Draw"
  /\ sqrtAB = Zero
  /\ factorA = Zero
  /\ factorB = Zero
  /\ t = TZero
  /\ a = Zero
  /\ b = Zero
  /\ dSteps = <<>>
  /\ countA = 0
  /\ countB = 0
  /\ dprA = Zero
  /\ dprB = Zero
  /\ round = 0
  /\ maxRounds = 0
  /\ result = NoResult
  /\ previous = <<>>
  /\ scenario = 0
  /\ isActive = FALSE
  /\ sentiment = <<>>
  /\ scannerLoading = FALSE
  /\ scannerError = FALSE
  /\ intervalRef = <<>>
  /\ frames = <<>>
  /\ messages = <<>>
  /\ input = FALSE
  /\ reportLoading = FALSE
  /\ reportError = FALSE
  /\ chatRef = <<>>
  /\ replies = <<>>

(***************************************************************************)
(* runSimulation: parameters, coefficients, entry of the continuous model  *)
(***************************************************************************)
\* a runSimulation whose fourth parameter is maxTime
runSimulationFourth(uA, uB, l, arg4, arg5) ==
  /\ pc = "idle"
  /\ args' = <<arg4, arg5>>
  /\ unitA' = uA
  /\ unitB' = uB
  /\ law' = l
  /\ dt' = Default(arg5, DefaultDt)
  /\ maxTime' = Default(arg4, DefaultMaxTime)
  /\ alpha' = calculateCoefficient(uB, uA)
  /\ beta' = calculateCoefficient(uA, uB)
  /\ steps' = <<>>
  /\ duration' = maxTime'
  /\ winner' = "Draw"
  /\ pc' = "continuous"
  /\ UNCHANGED <<squareVars, t, a, b, discVars, result, previous, componentVars>>

\* a runSimulation whose continuous solver appends to the steps of the call before
runSimulationSharedSteps(uA, uB, l, arg4, arg5) ==
  /\ pc = "idle"
  /\ args' = <<arg4, arg5>>
  /\ unitA' = uA
  /\ unitB' = uB
  /\ law' = l
  /\ dt' = Default(arg4, DefaultDt)
  /\ maxTime' = Default(arg5, DefaultMaxTime)
  /\ alpha' = calculateCoefficient(uB, uA)
  /\ beta' = calculateCoefficient(uA, uB)
  /\ duration' = maxTime'
  /\ winner' = "Draw"
  /\ pc' = "continuous"
  /\ UNCHANGED <<steps, squareVars, t, a, b, discVars, result, previous, componentVars>>

\* a runSimulation that takes alpha for beta
runSimulationSwapped(uA, uB, l, arg4, arg5) ==
  /\ pc = "idle"
  /\ args' = <<arg4, arg5>>
  /\ unitA' = uA
  /\ unitB' = uB
  /\ law' = l
  /\ dt' = Default(arg4, DefaultDt)
  /\ maxTime' = Default(arg5, DefaultMaxTime)
  /\ alpha' = calculateCoefficient(uA, uB)
  /\ beta' = calculateCoefficient(uB, uA)
  /\ steps' = <<>>
  /\ duration' = maxTime'
  /\ winner' = "Draw"
  /\ pc' = "continuous"
  /\ UNCHANGED <<squareVars, t, a, b, discVars, result, previous, componentVars>>

runSimulation(uA, uB, l, arg4, arg5) ==
  /\ pc = "idle"
  /\ args' = <<arg4, arg5>>
  /\ unitA' = uA
  /\ unitB' = uB
  /\ law' = l
  /\ dt' = Default(arg4, DefaultDt)
  /\ maxTime' = Default(arg5, DefaultMaxTime)
  /\ alpha' = calculateCoefficient(uB, uA)
  /\ beta' = calculateCoefficient(uA, uB)
  /\ steps' = <<>>
  /\ duration' = maxTime'
  /\ winner' = "Draw"
  /\ pc' = "continuous"
  /\ UNCHANGED <<squareVars, t, a, b, discVars, result, previous, componentVars>>

\* a0 read from the wrong side
a0Swapped == FromInt(unitB.count)

a0 == FromInt(unitA.count)

b0 == FromInt(unitB.count)

SimulationStep(time, cA, cB) == [time |-> time, countA |-> cA, countB |-> cB]

\* an early return that leaves duration at maxTime
SquareZeroKeepsDuration ==
  /\ pc = "continuous"
  /\ law = "SQUARE"
  /\ FSqrt(FMul(alpha, beta)) = Zero
  /\ sqrtAB' = Zero
  /\ steps' = <<SimulationStep(0, a0, b0)>>
  /\ winner' = "Draw"
  /\ pc' = "discrete"
  /\ UNCHANGED <<callVars, duration, factorA, factorB, t, a, b, discVars, result, previous, componentVars>>

\* Square law, sqrtAB === 0: the early return
SquareZero ==
  /\ pc = "continuous"
  /\ law = "SQUARE"
  /\ FSqrt(FMul(alpha, beta)) = Zero
  /\ sqrtAB' = Zero
  /\ steps' = <<SimulationStep(0, a0, b0)>>
  /\ duration' = 0
  /\ winner' = "Draw"
  /\ pc' = "discrete"
  /\ UNCHANGED <<callVars, factorA, factorB, t, a, b, discVars, result, previous, componentVars>>

\* Square law: the factors, and t = 0 of the sampling loop
SquareInit ==
  /\ pc = "continuous"
  /\ law = "SQUARE"
  /\ FSqrt(FMul(alpha, beta)) # Zero
  /\ sqrtAB' = FSqrt(FMul(alpha, beta))
  /\ factorA' = FSqrt(FDiv(alpha, beta))
  /\ factorB' = FSqrt(FDiv(beta, alpha))
  /\ t' = TZero
  /\ pc' = "square"
  /\ UNCHANGED <<callVars, steps, duration, winner, a, b, discVars, result, previous, componentVars>>

\* no clamping
Clamp0Off(x) == x

\* if (x < 0) x = 0
Clamp0(x) == IF FSign(x) < 0 THEN Zero ELSE x

\* a termination that names the side that reached 0 as the winner
SquareSampleInverted(timeVal, at, bt) ==
  IF Eval(<<at, bt>>, FSign(at) <= 0 \/ FSign(bt) <= 0)
    THEN /\ steps' = Append(steps, SimulationStep(timeVal, Clamp0(at), Clamp0(bt)))
         /\ duration' = timeVal
         /\ winner' = IF FLt(Clamp0(bt), Clamp0(at)) THEN "B" ELSE "A"
         /\ pc' = "discrete"
         /\ t' = t
    ELSE /\ steps' = Append(steps, SimulationStep(timeVal, at, bt))
         /\ t' = TAdd(t, Double01)
         /\ UNCHANGED <<duration, winner, pc>>

\* a termination that declares a draw when the clamped counts are equal
SquareSampleDraw(timeVal, at, bt) ==
  IF Eval(<<at, bt>>, FSign(at) <= 0 \/ FSign(bt) <= 0)
    THEN /\ steps' = Append(steps, SimulationStep(timeVal, Clamp0(at), Clamp0(bt)))
         /\ duration' = timeVal
         /\ winner' = IF FLt(Clamp0(bt), Clamp0(at)) THEN "A"
                       ELSE IF FLt(Clamp0(at), Clamp0(bt)) THEN "B" ELSE "Draw"
         /\ pc' = "discrete"
         /\ t' = t
    ELSE /\ steps' = Append(steps, SimulationStep(timeVal, at, bt))
         /\ t' = TAdd(t, Double01)
         /\ UNCHANGED <<duration, winner, pc>>

\* the termination check and the step recorded for one sample
SquareSample(timeVal, at, bt) ==
  IF Eval(<<at, bt>>, FSign(at) <= 0 \/ FSign(bt) <= 0)
    THEN /\ steps' = Append(steps, SimulationStep(timeVal, Clamp0(at), Clamp0(bt)))
         /\ duration' = timeVal
         /\ winner' = IF FLt(Clamp0(bt), Clamp0(at)) THEN "A" ELSE "B"
         /\ pc' = "discrete"
         /\ t' = t
    ELSE /\ steps' = Append(steps, SimulationStep(timeVal, at, bt))
         /\ t' = TAdd(t, Double01)
         /\ UNCHANGED <<duration, winner, pc, previous, componentVars>>

\* the analytical equations
SquareCounts(cosh, sinh) ==
  SquareSample(ToFixed2(t),
               FSub(FMul(a0, cosh), FMul(FMul(b0, factorA), sinh)),
               FSub(FMul(b0, cosh), FMul(FMul(a0, factorB), sinh)))

\* one pass of the Square-law sampling loop
SquareStep ==
  /\ pc = "square"
  /\ TLe(t, TFromHundredths(maxTime))
  /\ SquareCounts(Cosh(FMul(sqrtAB, TToFloat(t))), Sinh(FMul(sqrtAB, TToFloat(t))))
  /\ UNCHANGED <<callVars, squareVars, a, b, discVars, result, previous, componentVars>>

\* the sampling loop ends because t > maxTime
SquareExit ==
  /\ pc = "square"
  /\ ~TLe(t, TFromHundredths(maxTime))
  /\ pc' = "discrete"
  /\ UNCHANGED <<callVars, steps, duration, winner, squareVars, t, a, b, discVars, result, previous, componentVars>>

(***************************************************************************)
(* Linear law: Euler integration with dt = 0.05                            *)
(***************************************************************************)
LinearInit ==
  /\ pc = "continuous"
  /\ law # "SQUARE"
  /\ a' = a0
  /\ b' = b0
  /\ t' = TZero
  /\ steps' = Append(steps, SimulationStep(0, a0, b0))
  /\ pc' = "linear"
  /\ UNCHANGED <<callVars, duration, winner, squareVars, discVars, result, previous, componentVars>>

LinearContinue == FSign(a) > 0 /\ FSign(b) > 0 /\ TLt(t, TFromHundredths(maxTime))

\* an Euler increment without the factor dt
EulerDeltaNoDt(coef) == FMul(FMul(FNeg(coef), a), b)

\* dA = -alpha * a * b * dt and dB = -beta * a * b * dt
EulerDelta(coef) == FMul(FMul(FMul(FNeg(coef), a), b), FromRatio(5, 100))

\* an Euler step whose dB is computed from the a already updated
LinearStepSequential ==
  /\ pc = "linear"
  /\ LinearContinue
  /\ a' = Clamp0(FAdd(a, EulerDelta(alpha)))
  /\ b' = Clamp0(FAdd(b, FMul(FMul(FMul(FNeg(beta), a'), b), FromRatio(5, 100))))
  /\ t' = TAdd(t, Double005)
  /\ steps' = Append(steps, SimulationStep(ToFixed2(t'), a', b'))
  /\ UNCHANGED <<pc, callVars, duration, winner, squareVars, discVars, result, previous, componentVars>>

LinearStep ==
  /\ pc = "linear"
  /\ LinearContinue
  /\ a' = Clamp0(FAdd(a, EulerDelta(alpha)))
  /\ b' = Clamp0(FAdd(b, EulerDelta(beta)))
  /\ t' = TAdd(t, Double005)
  /\ steps' = Append(steps, SimulationStep(ToFixed2(t'), a', b'))
  /\ UNCHANGED <<pc, callVars, duration, winner, squareVars, discVars, result, previous, componentVars>>

LinearExit ==
  /\ pc = "linear"
  /\ ~LinearContinue
  /\ duration' = ToFixed2(t)
  /\ winner' = IF FLt(b, a) THEN "A" ELSE IF FLt(a, b) THEN "B" ELSE "Draw"
  /\ pc' = "discrete"
  /\ UNCHANGED <<callVars, steps, squareVars, t, a, b, discVars, result, previous, componentVars>>

(***************************************************************************)
(* runDiscreteSimulation, called with maxTime as its maxRounds             *)
(***************************************************************************)
DiscreteStep(r, cA, cB, casA, casB) ==
  [round |-> r, countA |-> cA, countB |-> cB, casualtiesA |-> casA, casualtiesB |-> casB]

\* maxRounds is kept in hundredths like maxTime
DiscreteInit ==
  /\ pc = "discrete"
  /\ maxRounds' = Default(<<maxTime>>, DefaultMaxRounds)
  /\ countA' = unitA.count
  /\ countB' = unitB.count
  /\ dSteps' = <<DiscreteStep(0, unitA.count, unitB.count, 0, 0)>>
  /\ dprA' = calculateEffectiveDPR(unitA, unitB)
  /\ dprB' = calculateEffectiveDPR(unitB, unitA)
  /\ round' = 1
  /\ pc' = "rounds"
  /\ UNCHANGED <<callVars, steps, duration, winner, squareVars, t, a, b, result, previous, componentVars>>

\* a loop condition without the cap on rounds
RoundContinueNoCap == countA > 0 /\ countB > 0

RoundContinue == countA > 0 /\ countB > 0 /\ round * 100 <= maxRounds

\* a Linear law under which one unit of a side attacks per round
totalDmgFrontage(count, dpr) ==
  IF law = "SQUARE" THEN FMul(FromInt(count), dpr) ELSE dpr

\* the raw damage of a side; both branches on the law compute count * dpr
totalDmg(count, dpr) ==
  IF law = "SQUARE" THEN FMul(FromInt(count), dpr) ELSE FMul(FromInt(count), dpr)

\* kills rounded to the nearest integer instead of down
killsRounded(dmg, hp) == FFloor(FAdd(FDiv(dmg, FromInt(hp)), Half))

\* Math.floor(totalDmg / hp)
kills(dmg, hp) == FFloor(FDiv(dmg, FromInt(hp)))

\* a round in which side A strikes first and only the survivors of B strike back
DiscreteRoundSequential ==
  /\ pc = "rounds"
  /\ RoundContinue
  /\ countB' = Max(0, countB - kills(totalDmg(countA, dprA), unitB.hp))
  /\ countA' = Max(0, countA - kills(totalDmg(countB', dprB), unitA.hp))
  /\ dSteps' = Append(dSteps, DiscreteStep(round, countA', countB', countA - countA', countB - countB'))
  /\ round' = round + 1
  /\ UNCHANGED <<pc, callVars, steps, duration, winner, squareVars, t, a, b, dprA, dprB, maxRounds, result, previous, componentVars>>

\* one round: both sides strike with the counts they had when it began
DiscreteRound ==
  /\ pc = "rounds"
  /\ RoundContinue
  /\ countA' = Max(0, countA - kills(totalDmg(countB, dprB), unitA.hp))
  /\ countB' = Max(0, countB - kills(totalDmg(countA, dprA), unitB.hp))
  /\ dSteps' = Append(dSteps, DiscreteStep(round, countA', countB', countA - countA', countB - countB'))
  /\ round' = round + 1
  /\ UNCHANGED <<pc, callVars, steps, duration, winner, squareVars, t, a, b, dprA, dprB, maxRounds, result, previous, componentVars>>

DiscreteExit ==
  /\ pc = "rounds"
  /\ ~RoundContinue
  /\ pc' = "return"
  /\ UNCHANGED <<callVars, steps, duration, winner, squareVars, t, a, b, discVars, result, previous, componentVars>>

\* a discrete duration that counts the round that was not fought
ReturnNextRound ==
  /\ pc = "return"
  /\ result' = [continuousSteps |-> steps, discreteSteps |-> dSteps, winner |-> winner,
                duration |-> duration, discreteDuration |-> round,
                alpha |-> alpha, beta |-> beta]
  /\ pc' = "done"
  /\ UNCHANGED <<callVars, steps, duration, winner, squareVars, t, a, b, discVars, previous, componentVars>>

\* a result whose winner and duration come from the discrete model
ReturnDiscrete ==
  /\ pc = "return"
  /\ result' = [continuousSteps |-> steps, discreteSteps |-> dSteps,
                winner |-> IF countA > countB THEN "A" ELSE IF countB > countA THEN "B" ELSE "Draw",
                duration |-> (round - 1) * 100, discreteDuration |-> round - 1,
                alpha |-> alpha, beta |-> beta]
  /\ pc' = "done"
  /\ UNCHANGED <<callVars, steps, duration, winner, squareVars, t, a, b, discVars, previous, componentVars>>

\* runSimulation assembles the SimulationResult
Return ==
  /\ pc = "return"
  /\ result' = [continuousSteps |-> steps, discreteSteps |-> dSteps, winner |-> winner,
                duration |-> duration, discreteDuration |-> round - 1,
                alpha |-> alpha, beta |-> beta]
  /\ pc' = "done"
  /\ UNCHANGED <<callVars, steps, duration, winner, squareVars, t, a, b, discVars, previous, componentVars>>

(***************************************************************************)
(* The calls explored                                                      *)
(***************************************************************************)
\* count 10 on both sides, and a unit that deals no damage
Ten(unit) == handleChange(unit, "count", 10)

Harmless(unit) == handleChange(handleChange(unit, "damageDiceAvg", Zero), "damageMod", 0)

Scenarios ==
  { <<GUARD, COMMONER>>, <<COMMONER, VETERAN>>, <<VETERAN, GOBLIN>>,
    <<Ten(COMMONER), Ten(COMMONER)>>, <<Ten(COMMONER), Ten(VETERAN)>>,
    <<Ten(Harmless(COMMONER)), Ten(Harmless(COMMONER))>>,
    <<COMMONER, Ten(Harmless(COMMONER))>> }

\* explicit time arguments are multiples of 0.25 up to MaxQuarters quarters;
\* they are written in hundredths
MaxQuarters == 4

DtArgs == {<<>>, <<25 * MaxQuarters>>}

MaxTimeArgs == {<<>>} \cup {<<25 * q>> : q \in {1, 2, MaxQuarters}}

Call ==
  \E s \in Scenarios, l \in LawType, arg4 \in DtArgs, arg5 \in MaxTimeArgs :
    runSimulation(s[1], s[2], l, arg4, arg5)

Next ==
  \/ Call
  \/ SquareZero
  \/ SquareInit
  \/ SquareStep
  \/ SquareExit
  \/ LinearInit
  \/ LinearStep
  \/ LinearExit
  \/ DiscreteInit
  \/ DiscreteRound
  \/ DiscreteExit
  \/ Return

Spec == Init /\ [][Next]_vars

(***************************************************************************)
(* A second call.  App runs runSimulation again whenever a unit or the law *)
(* changes (useMemo over [unitA, unitB, lawType]); what the call before    *)
(* returned is kept in previous.  RepeatSpec runs one call with the        *)
(* default dt and then a second one: with the same arguments, with the two *)
(* units exchanged, or under the other law.                                *)
(***************************************************************************)
FirstCall ==
  /\ previous = <<>>
  /\ \E s \in Scenarios, l \in LawType, arg5 \in MaxTimeArgs :
       runSimulation(s[1], s[2], l, <<>>, arg5)

Rerender ==
  /\ pc = "done"
  /\ previous = <<>>
  /\ previous' = <<[unitA |-> unitA, unitB |-> unitB, law |-> law, args |-> args,
                    result |-> result]>>
  /\ pc' = "idle"
  /\ UNCHANGED <<callVars, steps, duration, winner, squareVars, t, a, b, discVars, result,
                 componentVars>>

CallAgain ==
  /\ previous # <<>>
  /\ runSimulation(unitA, unitB, law, args[1], args[2])

CallSwapped ==
  /\ previous # <<>>
  /\ runSimulation(unitB, unitA, law, args[1], args[2])

CallOtherLaw ==
  /\ previous # <<>>
  /\ \E l \in LawType \ {law} : runSimulation(unitA, unitB, l, args[1], args[2])

RepeatNext ==
  \/ FirstCall
  \/ Rerender
  \/ CallAgain
  \/ CallSwapped
  \/ CallOtherLaw
  \/ SquareZero
  \/ SquareInit
  \/ SquareStep
  \/ SquareExit
  \/ LinearInit
  \/ LinearStep
  \/ LinearExit
  \/ DiscreteInit
  \/ DiscreteRound
  \/ DiscreteExit
  \/ Return

RepeatSpec == Init /\ [][RepeatNext]_vars

(***************************************************************************)
(* The unit editor.  UnitConfig.handleChange stores Number(value) in the   *)
(* edited field, whatever the number, App keeps the unit and at once       *)
(* computes calculateEffectiveDPR both ways (statsA, statsB) and calls     *)
(* runSimulation, whose first two statements are the coefficients.         *)
(* EditorSpec follows the units from the editor to these four numbers;     *)
(* what the solvers do with the coefficients is Spec.                      *)
(***************************************************************************)
\* the numbers typed into the fields: every armor class 0 .. MaxArmor, which
\* with the attack bonuses 3 (GUARD's) and -8 takes 21 + attackBonus - ac
\* through every integer from -12 to 24, a unit without damage, a negative
\* damage modifier, and 0 hit points
MaxArmor == 25

ArmorClasses == 0 .. MaxArmor

AttackBonuses == {0 - 8}

DamageMods == {0 - 6, 0}

DamageDiceAvgs == {Zero}

HitPoints == {0}

Edit(side, field, value) ==
  /\ pc \in {"idle", "edited"}
  /\ unitA' = IF side = "A" THEN handleChange(unitA, field, value) ELSE unitA
  /\ unitB' = IF side = "B" THEN handleChange(unitB, field, value) ELSE unitB
  /\ dprA' = calculateEffectiveDPR(unitA', unitB')
  /\ dprB' = calculateEffectiveDPR(unitB', unitA')
  /\ alpha' = calculateCoefficient(unitB', unitA')
  /\ beta' = calculateCoefficient(unitA', unitB')
  /\ pc' = "edited"
  /\ UNCHANGED <<args, law, dt, maxTime, steps, duration, winner, squareVars, t, a, b,
                 dSteps, countA, countB, round, maxRounds, result, previous, componentVars>>

EditorNext ==
  \/ \E v \in AttackBonuses : Edit("A", "attackBonus", v)
  \/ \E v \in DamageDiceAvgs : Edit("A", "damageDiceAvg", v)
  \/ \E v \in DamageMods : Edit("A", "damageMod", v)
  \/ \E v \in ArmorClasses : Edit("B", "ac", v)
  \/ \E v \in HitPoints : Edit("B", "hp", v)

EditorSpec == Init /\ [][EditorNext]_vars

(***************************************************************************)
(* The components that consume the result.  App gives SentimentScanner and *)
(* AnalysisReport its unitA, unitB, result and law; scenario counts how    *)
(* often these have changed, and whatever a request is built from or       *)
(* answers carries the scenario it was made for.  A request sent to the    *)
(* language service is in flight from the statement that awaits it until   *)
(* the promise settles, and it settles at a time the component does not    *)
(* choose: another handler, a timer or a change of the props can run in    *)
(* between.  A state variable read inside a handler is the value of the    *)
(* render that created the handler.                                        *)
(***************************************************************************)
\* process.env.API_KEY, defined by the build
API_KEY == TRUE

\* how often the props change, and how many requests and messages are kept
MaxScenario == 2

MaxFrames == 3

MaxReplies == 2

MaxMessages == 3

\* a sequence without its i-th element
Remove(seq, i) == SubSeq(seq, 1, i - 1) \o SubSeq(seq, i + 1, Len(seq))

(***************************************************************************)
(* SentimentScanner.  intervalRef holds the running timer, <<>> or         *)
(* <<closure>>: the timer calls the analyzeFrame of the render that set it *)
(* up, which reads that render's loading and props.  frames are the        *)
(* generateContent requests in flight.  The video and canvas elements are  *)
(* always rendered, and the canvas gives its 2d context.                   *)
(***************************************************************************)
analyzeFrame(closure) ==
  IF ~API_KEY \/ closure.loading
    THEN UNCHANGED <<scannerLoading, frames>>
    ELSE /\ scannerLoading' = TRUE
         /\ frames' = Append(frames, closure.scenario)

\* whether the analyzeFrame of this closure may run: one that issues a
\* request needs room among the requests kept
Room(closure) == ~API_KEY \/ closure.loading \/ Len(frames) < MaxFrames

\* the closure of a render with the props of scenario sc
Render(sc) == [loading |-> scannerLoading, scenario |-> sc]

\* the polling effect, run after a render in which isActive or a prop changed
PollingEffect(active, sc) ==
  IF active
    THEN /\ intervalRef' = <<Render(sc)>>
         /\ analyzeFrame(Render(sc))
    ELSE /\ intervalRef' = <<>>
         /\ UNCHANGED <<scannerLoading, frames>>

\* the button while the camera is off; getUserMedia grants or refuses
startCamera(granted) ==
  /\ ~isActive
  /\ Room(Render(scenario))
  /\ IF granted
       THEN /\ isActive' = TRUE
            /\ scannerError' = FALSE
            /\ PollingEffect(TRUE, scenario)
       ELSE /\ scannerError' = TRUE
            /\ UNCHANGED <<isActive, intervalRef, scannerLoading, frames>>
  /\ UNCHANGED <<sentiment, scenario, simulationVars, reportVars>>

\* the button while the camera is on
stopCamera ==
  /\ isActive
  /\ isActive' = FALSE
  /\ PollingEffect(FALSE, scenario)
  /\ UNCHANGED <<sentiment, scannerError, scenario, simulationVars, reportVars>>

\* the 4-second timer fires
Interval ==
  /\ intervalRef # <<>>
  /\ Room(intervalRef[1])
  /\ analyzeFrame(intervalRef[1])
  /\ UNCHANGED <<isActive, sentiment, scannerError, intervalRef, scenario,
                 simulationVars, reportVars>>

\* the i-th request settles, with a text or without (rejected or empty)
generateContent(i, text) ==
  /\ i \in 1 .. Len(frames)
  /\ frames' = Remove(frames, i)
  /\ sentiment' = IF text THEN <<frames[i]>> ELSE sentiment
  /\ scannerLoading' = FALSE
  /\ UNCHANGED <<isActive, scannerError, intervalRef, scenario, simulationVars,
                 reportVars>>

\* App renders the scanner with a new unitA, unitB or result
ScannerProps ==
  /\ scenario < MaxScenario
  /\ Room(Render(scenario + 1))
  /\ scenario' = scenario + 1
  /\ PollingEffect(isActive, scenario + 1)
  /\ UNCHANGED <<isActive, sentiment, scannerError, simulationVars, reportVars>>

ScannerNext ==
  \/ \E granted \in BOOLEAN : startCamera(granted)
  \/ stopCamera
  \/ Interval
  \/ \E i \in 1 .. MaxFrames, text \in BOOLEAN : generateContent(i, text)
  \/ ScannerProps

ScannerSpec == Init /\ [][ScannerNext]_vars

(***************************************************************************)
(* AnalysisReport.  chatRef is <<>> (null) or <<scenario the chat session  *)
(* was created for>>; a message carries the scenario it is about; input is *)
(* whether the text field holds more than blanks; replies are the          *)
(* sendMessage requests in flight.                                         *)
(***************************************************************************)
\* the effect on unitA, unitB, result and law
ResetEffect ==
  /\ messages' = <<>>
  /\ chatRef' = <<>>
  /\ reportError' = FALSE
  /\ UNCHANGED <<replies, reportLoading>>

\* App renders the report with a new unitA, unitB, result or law
ReportProps ==
  /\ scenario < MaxScenario
  /\ scenario' = scenario + 1
  /\ ResetEffect
  /\ UNCHANGED <<input, simulationVars, scannerVars>>

\* "Generate Initial Report" (shown while there is no message, no request and
\* no error) or "Restart" (shown while there are messages), up to the await
startAnalysis ==
  /\ \/ messages = <<>> /\ ~reportLoading /\ ~reportError
     \/ messages # <<>>
  /\ Len(replies) < MaxReplies
  /\ IF ~API_KEY
       THEN /\ reportError' = TRUE
            /\ UNCHANGED <<reportLoading, chatRef, replies>>
       ELSE /\ reportLoading' = TRUE
            /\ reportError' = FALSE
            /\ chatRef' = <<scenario>>
            /\ replies' = Append(replies, [to |-> "startAnalysis", chat |-> scenario])
  /\ UNCHANGED <<messages, input, scenario, simulationVars, scannerVars>>

\* the text field, enabled while the form is shown and no request is loading
setInput(text) ==
  /\ messages # <<>>
  /\ ~reportLoading
  /\ input' = text
  /\ UNCHANGED <<messages, reportLoading, reportError, chatRef, replies, scenario,
                 simulationVars, scannerVars>>

\* the form is submitted (possible while it is shown, no request is loading
\* and the text is not blank), up to the await
handleSendMessage ==
  /\ messages # <<>>
  /\ ~reportLoading
  /\ input
  /\ Len(messages) < MaxMessages
  /\ Len(replies) < MaxReplies
  /\ IF ~input \/ chatRef = <<>>
       THEN UNCHANGED <<messages, input, reportLoading, replies>>
       ELSE /\ input' = FALSE
            /\ messages' = Append(messages, [role |-> "user", scenario |-> scenario])
            /\ reportLoading' = TRUE
            /\ replies' = Append(replies, [to |-> "handleSendMessage", chat |-> chatRef[1]])
  /\ UNCHANGED <<reportError, chatRef, scenario, simulationVars, scannerVars>>

\* the i-th sendMessage settles: with a text, with an empty text, or rejected;
\* the rest of the handler that awaited it runs
sendMessage(i, outcome) ==
  /\ i \in 1 .. Len(replies)
  /\ replies' = Remove(replies, i)
  /\ messages' =
       IF outcome # "text" THEN messages
       ELSE IF replies[i].to = "startAnalysis"
         THEN <<[role |-> "model", scenario |-> replies[i].chat]>>
         ELSE Append(messages, [role |-> "model", scenario |-> replies[i].chat])
  /\ reportError' = IF outcome = "rejected" THEN TRUE ELSE reportError
  /\ reportLoading' = FALSE
  /\ UNCHANGED <<input, chatRef, scenario, simulationVars, scannerVars>>

ReportNext ==
  \/ ReportProps
  \/ startAnalysis
  \/ \E text \in BOOLEAN : setInput(text)
  \/ handleSendMessage
  \/ \E i \in 1 .. MaxReplies, outcome \in {"text", "empty", "rejected"} :
       sendMessage(i, outcome)

ReportSpec == Init /\ [][ReportNext]_vars

(***************************************************************************)
(* Properties of the returned SimulationResult                             *)
(***************************************************************************)
Returned == pc = "done"

Last(sq) == sq[Len(sq)]

\* the integration step of the law in force, in hundredths
StepOf(l) == IF l = "SQUARE" THEN 10 ELSE 5

FirstContinuous == SimulationStep(0, FromInt(unitA.count), FromInt(unitB.count))

FirstDiscrete == DiscreteStep(0, unitA.count, unitB.count, 0, 0)

\* C1: every returned result starts its continuous sequence with
\* {time 0, unitA.count, unitB.count} and its discrete sequence with
\* {round 0, unitA.count, unitB.count, 0, 0}, under either law; the sequences
\* under construction start the same way.
C1_FirstSteps ==
  /\ Len(steps) > 0 => steps[1] = FirstContinuous
  /\ Len(dSteps) > 0 => dSteps[1] = FirstDiscrete
  /\ Returned => /\ Len(result.continuousSteps) > 0
                 /\ Len(result.discreteSteps) > 0
                 /\ result.continuousSteps[1] = FirstContinuous
                 /\ result.discreteSteps[1] = FirstDiscrete

\* a Square-law result of several samples and several rounds
C1_Witness ==
  /\ Returned
  /\ law = "SQUARE"
  /\ Len(result.continuousSteps) > 1
  /\ Len(result.discreteSteps) > 1
  /\ result.continuousSteps[1] = FirstContinuous
  /\ unitA.count # unitB.count

NonNegativeSteps(sq) ==
  \A i \in 1 .. Len(sq) : FSign(sq[i].countA) >= 0 /\ FSign(sq[i].countB) >= 0

NonNegativeRounds(sq) ==
  \A i \in 1 .. Len(sq) : sq[i].countA >= 0 /\ sq[i].countB >= 0

\* C2: no count recorded in a continuous step (either law) or in a discrete
\* step of a returned result is negative.
C2_NoNegativeCount ==
  Returned => /\ NonNegativeSteps(result.continuousSteps)
              /\ NonNegativeRounds(result.discreteSteps)

\* a result whose last continuous step and last round both record a side at exactly 0
C2_Witness ==
  /\ Returned
  /\ Len(result.continuousSteps) > 1
  /\ Last(result.continuousSteps).countA = Zero
  /\ FSign(Last(result.continuousSteps).countB) > 0
  /\ Last(result.discreteSteps).countA = 0
  /\ Last(result.discreteSteps).casualtiesA > 0

MonotoneSteps(sq) ==
  \A i \in 1 .. Len(sq) - 1 :
    FLe(sq[i + 1].countA, sq[i].countA) /\ FLe(sq[i + 1].countB, sq[i].countB)

MonotoneRounds(sq) ==
  \A i \in 1 .. Len(sq) - 1 :
    sq[i + 1].countA <= sq[i].countA /\ sq[i + 1].countB <= sq[i].countB

\* C3: in a returned result the counts never increase from one step to the
\* next, in the continuous sequence (the final Square-law sample included)
\* and in the discrete sequence.
C3_Monotone ==
  Returned => /\ MonotoneSteps(result.continuousSteps)
              /\ MonotoneRounds(result.discreteSteps)

\* C4 as amended: the continuous solver never holds more than maxTime/dt + 2
\* steps (dt = 0.1 for Square, 0.05 for Linear) and the discrete solver never
\* executes more than maxRounds rounds, whatever the units.
C4_IterationBound ==
  /\ Len(steps) * StepOf(law) <= maxTime + 2 * StepOf(law)
  /\ pc \in {"rounds", "return", "done"} =>
       /\ (round - 1) * 100 <= maxRounds
       /\ Len(dSteps) = round

\* C4 as claimed: at most maxTime/dt + 1 continuous steps, at most maxRounds rounds
C4_Original ==
  /\ Len(steps) * StepOf(law) <= maxTime + StepOf(law)
  /\ pc \in {"rounds", "return", "done"} => (round - 1) * 100 <= maxRounds

\* a Linear run of maxTime/dt + 2 steps beside maxRounds rounds in which nobody died
C4_Witness ==
  /\ Returned
  /\ law = "LINEAR"
  /\ Len(result.continuousSteps) * 5 = maxTime + 10
  /\ result.discreteDuration * 100 = maxRounds
  /\ Last(result.discreteSteps).countA = unitA.count
  /\ Last(result.discreteSteps).countB = unitB.count

\* C5: a call with default arguments returns discreteDuration <= 20 and at
\* most 21 discrete steps.
C5_DefaultRoundCap ==
  (Returned /\ args = <<<<>>, <<>>>>) =>
    /\ result.discreteDuration <= 20
    /\ Len(result.discreteSteps) <= 21

TimesWithin(sq, bound) == \A i \in 1 .. Len(sq) : sq[i].time <= bound

\* C6 as amended: maxTime is the fifth argument of runSimulation (100 when it
\* is left out) and the fourth argument has no part in it: no continuous
\* step has a time beyond that maxTime plus one integration step, and the
\* returned duration is within the same bound.
C6_FifthIsMaxTime ==
  Returned =>
    /\ maxTime = Default(args[2], DefaultMaxTime)
    /\ result.duration <= Default(args[2], DefaultMaxTime) + StepOf(law)
    /\ TimesWithin(result.continuousSteps, Default(args[2], DefaultMaxTime) + StepOf(law))

\* C6 as claimed: with m as fourth and last argument the run is bounded by m
C6_FourthIsMaxTime ==
  (Returned /\ args[1] # <<>> /\ args[2] = <<>>) =>
    /\ result.duration <= args[1][1] + StepOf(law)
    /\ TimesWithin(result.continuousSteps, args[1][1] + StepOf(law))

\* a call with different fourth and fifth arguments that ran up to the fifth
C6_Witness ==
  /\ Returned
  /\ args[1] # <<>>
  /\ args[2] # <<>>
  /\ args[1][1] > args[2][1]
  /\ result.duration = args[2][1]
  /\ Len(result.continuousSteps) > 1

\* scenario 1 of the specification, with the default maxTime
Scenario1 ==
  /\ Returned
  /\ unitA = GUARD
  /\ unitB = COMMONER
  /\ law = "SQUARE"
  /\ args[2] = <<>>

\* C7 as amended: for GUARD (count 5) against COMMONER (count 20) under the
\* Square law with the default maxTime, alpha > 0, beta > 0, the winner is B
\* (side A is the one that reaches 0, at time 4.0) and discreteDuration is
\* 7, within 20.
C7_Scenario1 ==
  Scenario1 =>
    /\ FSign(result.alpha) > 0
    /\ FSign(result.beta) > 0
    /\ result.winner = "B"
    /\ result.duration = 400
    /\ Last(result.continuousSteps).countA = Zero
    /\ result.discreteDuration = 7
    /\ result.discreteDuration <= 20

\* C7 as claimed: the winner is A
C7_Original ==
  Scenario1 =>
    /\ FSign(result.alpha) > 0
    /\ FSign(result.beta) > 0
    /\ result.winner = "A"
    /\ result.discreteDuration <= 20

C7_Witness ==
  /\ Scenario1
  /\ result.winner = "B"
  /\ FSign(Last(result.continuousSteps).countB) > 0
  /\ Last(result.discreteSteps).countB = 0

\* C8: with identical units of count 10 on both sides and the default
\* maxTime, under either law, the result has winner Draw, alpha equal to
\* beta, and the continuous duration equal to the discrete duration.
C8_IdenticalUnits ==
  (Returned /\ unitA = unitB /\ unitA.count = 10 /\ args[2] = <<>>) =>
    /\ result.winner = "Draw"
    /\ result.alpha = result.beta
    /\ result.duration = result.discreteDuration * 100

\* C9: under the Square law, when sqrt(alpha * beta) is 0 (a coefficient is
\* zero) the continuous result is the single step {0, unitA.count,
\* unitB.count} with duration 0 and winner Draw, and the factors of the
\* closed form (the divisions alpha/beta and beta/alpha) were never computed.
C9_ZeroCoefficient ==
  (Returned /\ law = "SQUARE" /\ FSqrt(FMul(alpha, beta)) = Zero) =>
    /\ result.continuousSteps = <<FirstContinuous>>
    /\ result.duration = 0
    /\ result.winner = "Draw"
    /\ factorA = Zero
    /\ factorB = Zero

\* a Square-law result where only one of the two coefficients is zero
C9_Witness ==
  /\ Returned
  /\ law = "SQUARE"
  /\ result.alpha = Zero
  /\ result.beta # Zero
  /\ Len(result.continuousSteps) = 1
  /\ result.duration = 0

\* scenario 4 of the specification: maxTime 100, by default or explicitly
Scenario4 ==
  /\ Returned
  /\ unitA = VETERAN
  /\ unitB = GOBLIN
  /\ law = "LINEAR"
  /\ maxTime = DefaultMaxTime

\* C10 as amended: for VETERAN (count 3) against GOBLIN (count 15) under the
\* Linear law with maxTime 100, the continuous run does not end early: it
\* takes 2001 Euler steps, returns duration 100.05 with both counts still
\* positive and winner A, and the discrete run lasts 8 rounds (within 20)
\* and ends with side B at 0.
C10_Scenario4 ==
  Scenario4 =>
    /\ result.duration = 10005
    /\ Len(result.continuousSteps) = 2002
    /\ FSign(Last(result.continuousSteps).countA) > 0
    /\ FSign(Last(result.continuousSteps).countB) > 0
    /\ result.winner = "A"
    /\ result.discreteDuration = 8
    /\ result.discreteDuration <= 20
    /\ Last(result.discreteSteps).countB = 0

\* C10 as claimed: duration below 100 with both counts at 0, at most 20 rounds
C10_Original ==
  Scenario4 =>
    /\ result.duration < 10000
    /\ Last(result.continuousSteps).countA = Zero
    /\ Last(result.continuousSteps).countB = Zero
    /\ result.discreteDuration <= 20

C10_Witness ==
  /\ Scenario4
  /\ result.duration > maxTime
  /\ Last(result.continuousSteps).time = 10005
  /\ FLt(Last(result.continuousSteps).countB, Last(result.continuousSteps).countA)

(***************************************************************************)
(* Properties of runSimulation's steps                                     *)
(***************************************************************************)
Entered == pc = "idle" /\ pc' = "continuous"

Sampled == Len(steps') > Len(steps)

\* the loss of one Euler step at the rate coef
EulerLoss(coef) == FMul(FMul(FMul(coef, a), b), FromRatio(5, 100))

\* the closed form for the side of size own against the side of size other,
\* worn down at the rate coef while wearing the other side down at the rate back
ClosedForm(own, other, coef, back, x) ==
  FSub(FMul(own, Cosh(x)), FMul(FMul(other, FSqrt(FDiv(coef, back))), Sinh(x)))

\* C13: alpha is the damage per round of unitB against unitA over unitA's hp
\* and beta that of unitA against unitB over unitB's hp; neither changes
\* during the call; every Euler step takes alpha * a * b * dt from countA and
\* beta * a * b * dt from countB, every Square-law sample weighs the enemy
\* with sqrt(alpha / beta) for countA and sqrt(beta / alpha) for countB; and
\* the result carries the same alpha and beta.
C13_CoefficientRoles ==
  [][/\ Entered =>
          /\ alpha' = FDiv(calculateEffectiveDPR(unitB', unitA'), FromInt(unitA'.hp))
          /\ beta' = FDiv(calculateEffectiveDPR(unitA', unitB'), FromInt(unitB'.hp))
     /\ pc # "idle" => alpha' = alpha /\ beta' = beta
     /\ (pc = "linear" /\ Sampled) =>
          /\ Last(steps').countA = Clamp0(FSub(a, EulerLoss(alpha)))
          /\ Last(steps').countB = Clamp0(FSub(b, EulerLoss(beta)))
     /\ (pc = "square" /\ Sampled) =>
          /\ Last(steps').countA =
               Clamp0(ClosedForm(a0, b0, alpha, beta, FMul(sqrtAB, TToFloat(t))))
          /\ Last(steps').countB =
               Clamp0(ClosedForm(b0, a0, beta, alpha, FMul(sqrtAB, TToFloat(t))))
     /\ (pc = "return" /\ pc' = "done") =>
          /\ result'.alpha = alpha
          /\ result'.beta = beta]_vars

\* a Linear-law result where unitB deals no damage: alpha is 0 and beta is
\* not, side A ends at its initial count and side B below its own
C13_Witness ==
  /\ Returned
  /\ law = "LINEAR"
  /\ result.alpha = Zero
  /\ FSign(result.beta) > 0
  /\ Len(result.continuousSteps) > 2
  /\ Last(result.continuousSteps).countA = FromInt(unitA.count)
  /\ FLt(Last(result.continuousSteps).countB, FromInt(unitB.count))

\* C14: once the continuous solver has returned, nothing the discrete solver
\* does changes steps, duration, winner, alpha or beta, and the result's
\* winner, duration and continuousSteps are the continuous solver's, its
\* discreteSteps and discreteDuration the discrete solver's.
C14_ResultFromContinuous ==
  [][/\ pc \in {"discrete", "rounds", "return"} =>
          UNCHANGED <<steps, duration, winner, alpha, beta>>
     /\ (pc = "return" /\ pc' = "done") =>
          /\ result'.winner = winner
          /\ result'.duration = duration
          /\ result'.continuousSteps = steps
          /\ result'.alpha = alpha
          /\ result'.beta = beta
          /\ result'.discreteSteps = dSteps
          /\ result'.discreteDuration = Len(dSteps) - 1]_vars

\* a result whose two models disagree: the continuous one has B win, the
\* discrete one ends with side B wiped out, after another duration
C14_Witness ==
  /\ Returned
  /\ result.winner = "B"
  /\ Last(result.discreteSteps).countB = 0
  /\ Last(result.discreteSteps).countA > 0
  /\ result.duration # result.discreteDuration * 100

SquareRun == Returned /\ law = "SQUARE" /\ FSqrt(FMul(alpha, beta)) # Zero

BothAlive(step) == FSign(step.countA) > 0 /\ FSign(step.countB) > 0

\* C17: under the Square law with sqrt(alpha * beta) > 0 the samples are
\* taken at 0, 0.1, 0.2, ...; every step but the last has both counts > 0;
\* if the last step has a count that is not positive, that count is exactly
\* 0 and the other is not negative, duration is the time of that step, and
\* winner is A if its countA > countB and B otherwise, never Draw; if the last
\* step has both counts > 0 the run reached maxTime and is a Draw.
C17_SquareTermination ==
  SquareRun =>
    /\ \A i \in 1 .. Len(result.continuousSteps) :
         result.continuousSteps[i].time = 10 * (i - 1)
    /\ \A i \in 1 .. Len(result.continuousSteps) - 1 :
         BothAlive(result.continuousSteps[i])
    /\ ~BothAlive(Last(result.continuousSteps)) =>
         /\ Zero \in {Last(result.continuousSteps).countA, Last(result.continuousSteps).countB}
         /\ FSign(Last(result.continuousSteps).countA) >= 0
         /\ FSign(Last(result.continuousSteps).countB) >= 0
         /\ result.duration = Last(result.continuousSteps).time
         /\ result.winner =
              IF FLt(Last(result.continuousSteps).countB, Last(result.continuousSteps).countA)
                THEN "A" ELSE "B"
    /\ BothAlive(Last(result.continuousSteps)) =>
         /\ result.winner = "Draw"
         /\ result.duration = maxTime
         /\ Last(result.continuousSteps).time + 10 > maxTime

\* a Square-law run ended by side B reaching 0 after more than ten samples,
\* side A winning
C17_Witness ==
  /\ SquareRun
  /\ Len(result.continuousSteps) > 10
  /\ Last(result.continuousSteps).countB = Zero
  /\ FSign(Last(result.continuousSteps).countA) > 0
  /\ result.winner = "A"
  /\ result.duration = 10 * (Len(result.continuousSteps) - 1)

LinearRun == Returned /\ law = "LINEAR"

\* C18 as amended: every Euler step is taken with a > 0, b > 0 and the
\* accumulated t < maxTime, and records max(0, a - alpha*a*b*dt) and
\* max(0, b - beta*a*b*dt), both from the a and b before the step, at the
\* time t + dt to two decimals; the loop is left only with a <= 0, b <= 0 or
\* t >= maxTime; duration is then the final t to two decimals, which is
\* 0.05 times the number of Euler steps and at most maxTime + 0.05; the
\* winner is A if the final a > b, B if b > a, Draw if they are equal.
C18_EulerLoop ==
  [][/\ (pc = "linear" /\ Sampled) =>
          /\ FSign(a) > 0
          /\ FSign(b) > 0
          /\ TLt(t, TFromHundredths(maxTime))
          /\ t' = TAdd(t, Double005)
          /\ Last(steps') =
               SimulationStep(ToFixed2(t'), Clamp0(FSub(a, EulerLoss(alpha))),
                              Clamp0(FSub(b, EulerLoss(beta))))
          /\ a' = Last(steps').countA
          /\ b' = Last(steps').countB
     /\ (pc = "linear" /\ pc' = "discrete") =>
          /\ FSign(a) <= 0 \/ FSign(b) <= 0 \/ ~TLt(t, TFromHundredths(maxTime))
          /\ duration' = ToFixed2(t)
          /\ duration' = 5 * (Len(steps) - 1)
          /\ duration' <= maxTime + 5
          /\ winner' = IF FLt(b, a) THEN "A" ELSE IF FLt(a, b) THEN "B" ELSE "Draw"
          /\ Last(steps) = SimulationStep(duration', a, b)]_vars

\* C18 as claimed: the loop stops at the first t >= maxTime and duration is
\* that t, so a run that stopped with both sides alive took its last step
\* from a time below maxTime: duration - 0.05 < maxTime <= duration.
C18_Original ==
  (LinearRun /\ BothAlive(Last(result.continuousSteps))) =>
    /\ result.duration >= maxTime
    /\ result.duration - 5 < maxTime

\* a Linear-law run that ended after one Euler step because side A fell to 0
C18_Witness ==
  /\ LinearRun
  /\ Len(result.continuousSteps) = 2
  /\ Last(result.continuousSteps).countA = Zero
  /\ FSign(Last(result.continuousSteps).countB) > 0
  /\ result.duration = 5
  /\ result.duration < maxTime
  /\ result.winner = "B"

\* floor(enemy count * enemy damage per round / own hp)
Losses(enemies, attacker, defender) ==
  FFloor(FDiv(FMul(FromInt(enemies), calculateEffectiveDPR(attacker, defender)),
              FromInt(defender.hp)))

RECURSIVE SumCasualties(_, _, _)
SumCasualties(sq, side, i) ==
  IF i = 0 THEN 0 ELSE sq[i][side] + SumCasualties(sq, side, i - 1)

\* C21: in every discrete step after round 0, countA = max(0, previous countA
\* - floor(previous countB * dprB / unitA.hp)) and countB likewise from the
\* previous countA, casualtiesA and casualtiesB are the previous count minus
\* the new one, never more than the previous count, and the casualties of
\* all steps sum to the initial count minus the final count.
C21_RoundArithmetic ==
  Returned =>
    /\ \A i \in 2 .. Len(result.discreteSteps) :
         /\ result.discreteSteps[i].countA =
              Max(0, result.discreteSteps[i - 1].countA
                       - Losses(result.discreteSteps[i - 1].countB, unitB, unitA))
         /\ result.discreteSteps[i].countB =
              Max(0, result.discreteSteps[i - 1].countB
                       - Losses(result.discreteSteps[i - 1].countA, unitA, unitB))
         /\ result.discreteSteps[i].casualtiesA =
              result.discreteSteps[i - 1].countA - result.discreteSteps[i].countA
         /\ result.discreteSteps[i].casualtiesB =
              result.discreteSteps[i - 1].countB - result.discreteSteps[i].countB
         /\ result.discreteSteps[i].casualtiesA <= result.discreteSteps[i - 1].countA
         /\ result.discreteSteps[i].casualtiesB <= result.discreteSteps[i - 1].countB
    /\ SumCasualties(result.discreteSteps, "casualtiesA", Len(result.discreteSteps))
         = unitA.count - Last(result.discreteSteps).countA
    /\ SumCasualties(result.discreteSteps, "casualtiesB", Len(result.discreteSteps))
         = unitB.count - Last(result.discreteSteps).countB

\* a fight of several rounds whose last round killed fewer units of side B
\* than the damage dealt would have: the count was clamped at 0
C21_Witness ==
  /\ Returned
  /\ Len(result.discreteSteps) > 3
  /\ Last(result.discreteSteps).countB = 0
  /\ Last(result.discreteSteps).casualtiesB
       < Losses(result.discreteSteps[Len(result.discreteSteps) - 1].countA, unitA, unitB)
  /\ SumCasualties(result.discreteSteps, "casualtiesB", Len(result.discreteSteps))
       = unitB.count

C23_TimesAdvance ==
  Returned =>
    /\ result.continuousSteps[1].time = 0
    /\ \A i \in 1 .. Len(result.continuousSteps) - 1 :
         /\ result.continuousSteps[i + 1].time = result.continuousSteps[i].time + StepOf(law)
         /\ result.continuousSteps[i + 1].time > result.continuousSteps[i].time

\* a Linear-law result of maxTime/dt + 2 steps, the last at maxTime + 0.05
C23_Witness ==
  /\ LinearRun
  /\ maxTime = 50
  /\ Len(result.continuousSteps) = 12
  /\ Last(result.continuousSteps).time = 55
  /\ result.continuousSteps[2].time = 5

\* the fighting strength of a side under the Square law: the coefficient
\* with which it wears the enemy down times the square of its count
Strength(own, enemy) ==
  FMul(FDiv(calculateEffectiveDPR(own, enemy), FromInt(enemy.hp)),
       FromInt(own.count * own.count))

\* C24: under the Square law with positive coefficients, a run that ended
\* with a side at 0 has winner A exactly when beta * unitA.count^2 > alpha *
\* unitB.count^2, and winner B when alpha * unitB.count^2 > beta *
\* unitA.count^2, alpha being unitB's coefficient against unitA and beta
\* unitA's against unitB.
C24_SquareCriterion ==
  (SquareRun /\ ~BothAlive(Last(result.continuousSteps))) =>
    /\ result.winner = "A" <=> FLt(Strength(unitB, unitA), Strength(unitA, unitB))
    /\ FLt(Strength(unitA, unitB), Strength(unitB, unitA)) => result.winner = "B"

\* a Square-law run ended before maxTime and won by the stronger side A
C24_Witness ==
  /\ SquareRun
  /\ result.duration < maxTime
  /\ Last(result.continuousSteps).countB = Zero
  /\ unitA.count > unitB.count
  /\ FLt(Strength(unitB, unitA), Strength(unitA, unitB))
  /\ result.winner = "A"

\* C25: the winner of a result agrees with the counts of its last continuous
\* step: A only if countA > countB there, B only if countB > countA, Draw
\* only if the two counts are equal.
C25_WinnerAgrees ==
  Returned =>
    /\ result.winner = "A" =>
         FLt(Last(result.continuousSteps).countB, Last(result.continuousSteps).countA)
    /\ result.winner = "B" =>
         FLt(Last(result.continuousSteps).countA, Last(result.continuousSteps).countB)
    /\ result.winner = "Draw" =>
         Last(result.continuousSteps).countA = Last(result.continuousSteps).countB

\* C26: the duration of a result is the time of its last continuous step.
C26_DurationIsLastTime ==
  Returned => result.duration = Last(result.continuousSteps).time

(***************************************************************************)
(* Properties of the damage per round and the coefficients                 *)
(***************************************************************************)
Edited == pc = "edited"

\* damageDiceAvg + damageMod + 0.05 * damageDiceAvg
FullDamage(unit) ==
  FAdd(FAdd(unit.damageDiceAvg, FromInt(unit.damageMod)),
       FMul(FromRatio(5, 100), unit.damageDiceAvg))

\* C11: for units with a positive count and positive hp, whatever their other
\* attributes, calculateEffectiveDPR(attacker, defender) is strictly positive
\* and at most damageDiceAvg + damageMod + 0.05 * damageDiceAvg of the attacker.
C11_PositiveBoundedDPR ==
  (Edited /\ unitA.count > 0 /\ unitB.count > 0 /\ unitA.hp > 0 /\ unitB.hp > 0) =>
    /\ FSign(dprA) > 0
    /\ FLe(dprA, FullDamage(unitA))
    /\ FSign(dprB) > 0
    /\ FLe(dprB, FullDamage(unitB))

\* the hit probability, clamped on the integer 21 + attackBonus - ac
HitProbability(attackBonus, ac) ==
  IF 21 + attackBonus - ac <= 1 THEN FromRatio(5, 100)
  ELSE IF 21 + attackBonus - ac >= 19 THEN FromRatio(95, 100)
  ELSE FromRatio(21 + attackBonus - ac, 20)

ClampedDPR(attacker, defender) ==
  FAdd(FMul(HitProbability(attacker.attackBonus, defender.ac),
            FAdd(attacker.damageDiceAvg, FromInt(attacker.damageMod))),
       FMul(FromRatio(5, 100), attacker.damageDiceAvg))

\* C12: for every attackBonus and ac, calculateEffectiveDPR is
\* clamp((21 + attackBonus - ac) / 20, 0.05, 0.95) * (damageDiceAvg + damageMod)
\* + 0.05 * damageDiceAvg, the hit probability being 0.05 from 21 +
\* attackBonus - ac <= 1 down and 0.95 from 19 up, and calculateCoefficient is
\* that value divided by the target's hp.
C12_ClampedFormula ==
  Edited =>
    /\ dprA = ClampedDPR(unitA, unitB)
    /\ dprB = ClampedDPR(unitB, unitA)
    /\ unitB.hp # 0 => beta = FDiv(ClampedDPR(unitA, unitB), FromInt(unitB.hp))
    /\ unitA.hp # 0 => alpha = FDiv(ClampedDPR(unitB, unitA), FromInt(unitA.hp))

\* an attack whose unclamped hit chance would be negative still hits with 0.05
C12_Witness ==
  /\ Edited
  /\ 21 + unitA.attackBonus - unitB.ac < 0
  /\ FSign(unitA.damageDiceAvg) > 0
  /\ unitA.damageMod > 0
  /\ FSign(dprA) > 0
  /\ unitB.hp > 0
  /\ FSign(beta) > 0

\* C16: the coefficients are never computed for a unit whose hp is 0 or
\* negative: the editor rejects such a value before it reaches the engine.
C16_HpRejected == Edited => unitA.hp > 0 /\ unitB.hp > 0

(***************************************************************************)
(* Properties of two calls                                                 *)
(***************************************************************************)
Returning == pc = "return" /\ pc' = "done" /\ previous # <<>>

Before == previous[1]

SameCall ==
  /\ Before.unitA = unitA
  /\ Before.unitB = unitB
  /\ Before.law = law
  /\ Before.args = args

SwappedCall ==
  /\ Before.unitA = unitB
  /\ Before.unitB = unitA
  /\ Before.law = law
  /\ Before.args = args

OtherLawCall ==
  /\ Before.unitA = unitA
  /\ Before.unitB = unitB
  /\ Before.law # law
  /\ Before.args = args

Min(m, n) == IF m < n THEN m ELSE n

\* a discrete step with the A and B fields exchanged
Mirror(step) ==
  DiscreteStep(step.round, step.countB, step.countA, step.casualtiesB, step.casualtiesA)

Mirrored(sq, other) ==
  /\ Len(sq) = Len(other)
  /\ \A i \in 1 .. Len(sq) : sq[i] = Mirror(other[i])

\* C19: in every round the casualties of both sides are computed from the
\* counts at the start of the round (each side loses floor(enemy count *
\* enemy damage per round / own hp), at most its own count), and a call with
\* unitA and unitB exchanged returns the discrete sequence of the first call
\* with the A and B fields of every step exchanged, and the same
\* discreteDuration.
C19_Simultaneous ==
  [][/\ (pc = "rounds" /\ Len(dSteps') > Len(dSteps)) =>
          /\ Last(dSteps').casualtiesA =
               Min(countA, FFloor(FDiv(FMul(FromInt(countB), dprB), FromInt(unitA.hp))))
          /\ Last(dSteps').casualtiesB =
               Min(countB, FFloor(FDiv(FMul(FromInt(countA), dprA), FromInt(unitB.hp))))
          /\ Last(dSteps').countA = countA - Last(dSteps').casualtiesA
          /\ Last(dSteps').countB = countB - Last(dSteps').casualtiesB
     /\ (Returning /\ SwappedCall) =>
          /\ Mirrored(result'.discreteSteps, Before.result.discreteSteps)
          /\ result'.discreteDuration = Before.result.discreteDuration]_vars

\* two different units were exchanged, the fight lasted several rounds and
\* in one of them both sides lost units
C19_Witness ==
  /\ Returned
  /\ previous # <<>>
  /\ SwappedCall
  /\ unitA # unitB
  /\ Len(result.discreteSteps) > 3
  /\ \E i \in 1 .. Len(result.discreteSteps) :
       result.discreteSteps[i].casualtiesA > 0 /\ result.discreteSteps[i].casualtiesB > 0
  /\ Mirrored(result.discreteSteps, Before.result.discreteSteps)

\* C20: a call under the other law, with the same units and the same
\* maxTime (the discrete solver's maxRounds), returns the same discrete step
\* sequence and the same discreteDuration.
C20_LawIgnored ==
  [][(Returning /\ OtherLawCall) =>
       /\ result'.discreteSteps = Before.result.discreteSteps
       /\ result'.discreteDuration = Before.result.discreteDuration]_vars

\* the two laws gave different continuous sequences and durations, and the
\* same rounds with casualties
C20_Witness ==
  /\ Returned
  /\ previous # <<>>
  /\ OtherLawCall
  /\ Len(result.discreteSteps) > 1
  /\ Last(result.discreteSteps).casualtiesA > 0
  /\ result.discreteSteps = Before.result.discreteSteps
  /\ result.continuousSteps # Before.result.continuousSteps
  /\ result.duration # Before.result.duration

(***************************************************************************)
(* Properties of the components                                            *)
(***************************************************************************)
\* C27: SentimentScanner has at most one generateContent request in flight
\* at any time: an analyzeFrame called while a request is awaited (by the
\* timer or by the polling effect) issues no second one.
C27_NoOverlap == Len(frames) <= 1

\* C28: every message AnalysisReport shows is about the scenario it is given
\* (none is left from, or arrives for, the unitA, unitB, result and law of
\* before a change), and whenever messages are shown a chat session exists.
C28_ChatReset ==
  /\ \A i \in 1 .. Len(messages) : messages[i].scenario = scenario
  /\ messages # <<>> => chatRef # <<>>

=============================================================================
